---- MODULE Spec2Model ----
(***************************************************************************)
(* Schedule management of the auto-blog server (src/server.js).            *)
(*                                                                         *)
(* The server is one Node.js event loop: request handlers, the boot        *)
(* callback and the interval callbacks are async functions that interleave *)
(* at their await points.  A frame is one running async function; its pc   *)
(* names the await it is suspended at.  One action is the completion of    *)
(* that await (success or failure of the collaborator) followed by the     *)
(* synchronous code up to the next await or to the end of the function.    *)
(* A Firestore call takes effect at the step at which its await completes. *)
(***************************************************************************)
EXTENDS Integers, Sequences, FiniteSets, TLC

\* ---------------------------------------------------------------- bounds
\* Requests accepted over a run.
MaxRequests == 2
\* Request handlers in flight at the same time.
MaxInFlight == 2
\* setInterval calls over a run (timer ids are 1..MaxTimers).
MaxTimers == 2
\* The clock saturates here.
MaxTime == 2
\* Interval callbacks in flight at the same time.
MaxTicking == 1

\* ------------------------------------------------------ program constants
\* lastNewsPost: null / lastRegularPost: null
NullTs == 0
\* scheduleIntervalHours: 24, and the "|| 24" fallbacks
DefaultHours == 24
\* 60 * 1000
NewsMs == 60000
\* 60 * 60 * 1000
HourMs == 3600000
\* let newsInterval = null
NoTimer == 0

VARIABLES
  db,               \* the config document (CONFIG_COLLECTION/CONFIG_DOC_ID)
  now,              \* the clock read by admin.firestore.Timestamp.now()
  newsInterval,     \* the global handle: a timer id or NoTimer
  regularInterval,  \* the global handle: a timer id or NoTimer
  timers,           \* every timer setInterval created, with its callback's frame
  req,              \* frame 0: initializeSchedules; frames 1..MaxInFlight: requests
  issued,           \* requests accepted so far
  ev                \* what the last step answered or logged, and which frame

vars == <<db, now, newsInterval, regularInterval, timers, req, issued, ev>>

Slots == 1..MaxInFlight
BootSlot == 0

\* admin.firestore.Timestamp.now(): time never runs backwards.
TimestampNow(t) == IF t < MaxTime THEN t + 1 ELSE t

\* ------------------------------------------------------------ config store
AbsentDoc ==
  [exists |-> FALSE, newsUpdatesEnabled |-> FALSE, autoScheduleEnabled |-> FALSE,
   scheduleIntervalHours |-> 0, lastNewsPost |-> NullTs,
   lastRegularPost |-> NullTs, updatedAt |-> NullTs]

defaultConfig(t) ==
  [exists |-> TRUE, newsUpdatesEnabled |-> FALSE, autoScheduleEnabled |-> FALSE,
   scheduleIntervalHours |-> DefaultHours, lastNewsPost |-> NullTs,
   lastRegularPost |-> NullTs, updatedAt |-> t]

\* configRef.update(updates): the fields of updates replace the document's.
ApplyUpdate(d, u) ==
  [k \in DOMAIN d |-> IF k \in DOMAIN u THEN u[k] ELSE d[k]]

\* ------------------------------------------------------------------ timers
Timer(kind, ms) ==
  [kind |-> kind, ms |-> ms, armed |-> TRUE, pc |-> "idle", ts |-> NullTs]

\* clearInterval(id); clearInterval(null) does nothing.
clearInterval(tm, id) ==
  IF id = NoTimer THEN tm ELSE [tm EXCEPT ![id].armed = FALSE]

Armed(kind) == {i \in DOMAIN timers : timers[i].kind = kind /\ timers[i].armed}

\* ------------------------------------------------------------------ frames
\* A frame: op is the async function running ("idle": none), arg its postType or
\* action, sec the part of it that is running, pc the await it is suspended at,
\* b the request body (for initializeSchedules: the config it read), h the
\* intervalHours argument of startRegularSchedule, ts the Timestamp.now() its
\* pending write carries.
NoBody ==
  [hasNews |-> FALSE, news |-> FALSE, hasAuto |-> FALSE, auto |-> FALSE,
   hasHours |-> FALSE, hours |-> 0, hasLastNews |-> FALSE, lastNews |-> NullTs]

Idle ==
  [op |-> "idle", arg |-> "", sec |-> "", pc |-> "idle", b |-> NoBody, h |-> 0,
   ts |-> NullTs]

NewFrame(op, arg, b) == [Idle EXCEPT !.op = op, !.arg = arg, !.b = b]

\* The response a step sent (res.status(...).json: "200", "401", "500", "400"
\* for an invalid postType or action, "400 disabled" for /api/create-post of a
\* disabled kind) or the line it logged (an interval callback: "error" from its catch,
\* "disabled" when it stops; initializeSchedules: "booted", "bootFailed"), with
\* the slot or timer that did; NoEv: neither.
Ev(id, out) == [id |-> id, out |-> out]
NoEv == Ev(0, "")

\* The synchronous part of a step works on a copy of what it may change.
Machine(s) ==
  [s |-> s, f |-> req[s], ni |-> newsInterval, ri |-> regularInterval,
   tm |-> timers, t |-> now, ev |-> NoEv]

Commit(s, m) ==
  /\ req' = [req EXCEPT ![s] = m.f]
  /\ newsInterval' = m.ni
  /\ regularInterval' = m.ri
  /\ timers' = m.tm
  /\ now' = m.t
  /\ ev' = m.ev

\* res.json(...) / res.status(code).json(...)
Respond(m, status) == [m EXCEPT !.f = Idle, !.ev = Ev(m.s, status)]

\* initializeSchedules returns.
Booted(m) ==
  [m EXCEPT !.f = [Idle EXCEPT !.op = "booted"], !.ev = Ev(m.s, "booted")]

\* The schedule kind a frame is producing for, and that kind's config fields.
KindOf(f) ==
  IF f.op \in {"config", "init"}
  THEN (IF f.sec = "news" THEN "news" ELSE "regular")
  ELSE (IF f.arg \in {"news", "createNewsPost"} THEN "news" ELSE "regular")

Enabled(kind, cfg) ==
  IF kind = "news" THEN cfg.newsUpdatesEnabled ELSE cfg.autoScheduleEnabled

LastField(kind) == IF kind = "news" THEN "lastNewsPost" ELSE "lastRegularPost"

\* { last<Kind>Post: Timestamp.now() } with the updatedAt line 718 adds.
StampUpdate(kind, ts) == (LastField(kind) :> ts) @@ ("updatedAt" :> ts)

\* await getAutoBlogConfig(): suspend at configRef.get().
AwaitConfig(m, sec) == [m EXCEPT !.f.sec = sec, !.f.pc = "get"]

\* await createAutoBlogPost()
AwaitCreate(m) == [m EXCEPT !.f.pc = "create"]

\* await updateAutoBlogConfig(...): Timestamp.now() is read before the call
\* suspends at configRef.update(updates).
AwaitUpdate(m) ==
  LET ts == TimestampNow(m.t)
  IN [m EXCEPT !.f.pc = "update", !.f.ts = ts, !.t = ts]

\* startNewsSchedule() / startRegularSchedule(h) up to their first await:
\* no clearInterval of the timer the handle holds.
CallStart(m, sec, h) == AwaitCreate([m EXCEPT !.f.sec = sec, !.f.h = h])

\* newsInterval = setInterval(callback, 60 * 1000)
armNews(m) ==
  [m EXCEPT !.tm = Append(m.tm, Timer("news", NewsMs)), !.ni = Len(m.tm) + 1]

\* A setInterval that takes the hours for minutes.
armRegularMinutes(m) ==
  [m EXCEPT !.tm = Append(m.tm, Timer("regular", m.f.h * NewsMs)),
            !.ri = Len(m.tm) + 1]

\* regularInterval = setInterval(callback, intervalHours * 60 * 60 * 1000)
armRegular(m) ==
  [m EXCEPT !.tm = Append(m.tm, Timer("regular", m.f.h * HourMs)),
            !.ri = Len(m.tm) + 1]

\* ------------------------------------------------- app.post('/api/config')
\* const config = await updateAutoBlogConfig(updates)
EnterSave(m) == AwaitUpdate([m EXCEPT !.f.sec = "save"])

\* if (regularInterval) { clearInterval; null }  await startRegularSchedule(hours)
RestartRegular(m) ==
  CallStart([m EXCEPT !.tm = clearInterval(m.tm, m.ri), !.ri = NoTimer],
            "intv", m.f.b.hours)

\* if (typeof scheduleIntervalHours === 'number' && scheduleIntervalHours > 0)
EnterInterval(m) ==
  LET b == m.f.b
  IN IF b.hasHours /\ b.hours > 0
     THEN IF b.hasAuto /\ ~b.auto THEN EnterSave(m)
          ELSE IF b.hasAuto /\ b.auto THEN RestartRegular(m)
          ELSE AwaitConfig(m, "intv")
     ELSE EnterSave(m)

\* if (typeof autoScheduleEnabled === 'boolean')
EnterAuto(m) ==
  LET b == m.f.b
  IN IF b.hasAuto
     THEN IF b.auto
          THEN IF b.hours # 0 THEN CallStart(m, "auto", b.hours)
               ELSE AwaitConfig(m, "auto")
          ELSE EnterInterval([m EXCEPT !.tm = clearInterval(m.tm, m.ri),
                                       !.ri = NoTimer])
     ELSE EnterInterval(m)

\* if (typeof newsUpdatesEnabled === 'boolean')
EnterNews(m) ==
  LET b == m.f.b
  IN IF b.hasNews
     THEN IF b.news THEN CallStart(m, "news", 0)
          ELSE EnterAuto([m EXCEPT !.tm = clearInterval(m.tm, m.ni),
                                   !.ni = NoTimer])
     ELSE EnterAuto(m)

\* The updates object the handler has built when it saves.
ConfigUpdates(b, ts) ==
  [k \in ({"updatedAt"}
           \cup (IF b.hasNews THEN {"newsUpdatesEnabled"} ELSE {})
           \cup (IF b.hasAuto THEN {"autoScheduleEnabled"} ELSE {})
           \cup (IF b.hasHours /\ b.hours > 0 THEN {"scheduleIntervalHours"} ELSE {}))
     |-> CASE k = "updatedAt" -> ts
           [] k = "newsUpdatesEnabled" -> b.news
           [] k = "autoScheduleEnabled" -> b.auto
           [] k = "scheduleIntervalHours" -> b.hours]

\* ------------------------------------------------------ initializeSchedules
\* if (config.autoScheduleEnabled) await startRegularSchedule(hours || 24)
InitAuto(m) ==
  LET b == m.f.b
  IN IF b.auto
     THEN CallStart(m, "auto", IF b.hours # 0 THEN b.hours ELSE DefaultHours)
     ELSE Booted(m)

\* if (config.newsUpdatesEnabled) await startNewsSchedule()
InitNews(m, cfg) ==
  LET m1 == [m EXCEPT !.f.b.news = cfg.newsUpdatesEnabled,
                      !.f.b.auto = cfg.autoScheduleEnabled,
                      !.f.b.hours = cfg.scheduleIntervalHours]
  IN IF cfg.newsUpdatesEnabled THEN CallStart(m1, "news", 0) ELSE InitAuto(m1)

\* ------------------------------------------------- app.post('/api/webhook')
\* updateAutoBlogConfig(data.updates || {}): the fields as sent.
WebhookUpdates(b, ts) ==
  [k \in ({"updatedAt"}
           \cup (IF b.hasNews THEN {"newsUpdatesEnabled"} ELSE {})
           \cup (IF b.hasAuto THEN {"autoScheduleEnabled"} ELSE {})
           \cup (IF b.hasHours THEN {"scheduleIntervalHours"} ELSE {})
           \cup (IF b.hasLastNews THEN {"lastNewsPost"} ELSE {}))
     |-> CASE k = "updatedAt" -> ts
           [] k = "newsUpdatesEnabled" -> b.news
           [] k = "autoScheduleEnabled" -> b.auto
           [] k = "scheduleIntervalHours" -> b.hours
           [] k = "lastNewsPost" -> b.lastNews]

\* ------------------------------------------- app.post('/api/create-post')
\* A handler that produces whatever the flag says.
CreateRegardless(m, cfg) == AwaitCreate(m)

\* if (config.<flag>) { await createAutoBlogPost() ... }
\* else return res.status(400).json({ error: '... disabled' })
CreateIfEnabled(m, cfg) ==
  IF Enabled(KindOf(m.f), cfg) THEN AwaitCreate(m) ELSE Respond(m, "400 disabled")

\* ------------------------------------------------------------ continuations
\* What a frame does with the config getAutoBlogConfig returned.
AfterConfig(m, cfg) ==
  LET f == m.f
  IN CASE f.op = "init" -> InitNews(m, cfg)
       [] f.op = "config" /\ f.sec = "auto" ->
            CallStart(m, "auto", IF cfg.scheduleIntervalHours # 0
                                 THEN cfg.scheduleIntervalHours ELSE DefaultHours)
       [] f.op = "config" /\ f.sec = "intv" ->
            IF cfg.autoScheduleEnabled THEN RestartRegular(m) ELSE EnterSave(m)
       [] f.op = "getcfg" -> Respond(m, "200")
       [] f.op = "webhook" /\ f.arg = "getConfig" -> Respond(m, "200")
       [] f.op = "webhook" /\ f.arg # "getConfig" ->
            IF Enabled(KindOf(f), cfg) THEN AwaitCreate(m) ELSE Respond(m, "200")
       [] f.op = "create" -> CreateIfEnabled(m, cfg)

\* What a frame does when createAutoBlogPost returned a blog id.
AfterCreate(m) ==
  IF m.f.op = "webhook" /\ m.f.arg = "createPost"
  THEN Respond(m, "200")
  ELSE AwaitUpdate(m)

\* The updates a frame suspended in updateAutoBlogConfig is writing.
UpdatesOf(f) ==
  CASE f.op = "config" /\ f.sec = "save" -> ConfigUpdates(f.b, f.ts)
    [] f.op = "webhook" /\ f.arg = "updateConfig" -> WebhookUpdates(f.b, f.ts)
    [] OTHER -> StampUpdate(KindOf(f), f.ts)

\* Whether the frame is inside startNewsSchedule / startRegularSchedule.
InStart(f) ==
  \/ f.op = "init"
  \/ f.op = "config" /\ f.sec \in {"news", "auto", "intv"}

\* What a frame does when updateAutoBlogConfig returned.
AfterUpdate(m) ==
  LET f == m.f
  IN CASE f.op = "init" /\ f.sec = "news" -> InitAuto(armNews(m))
       [] f.op = "init" /\ f.sec = "auto" -> Booted(armRegular(m))
       [] f.op = "config" /\ f.sec = "news" -> EnterAuto(armNews(m))
       [] f.op = "config" /\ f.sec = "auto" -> EnterInterval(armRegular(m))
       [] f.op = "config" /\ f.sec = "intv" -> EnterSave(armRegular(m))
       [] OTHER -> Respond(m, "200")

\* A rejected await: every catch block up the stack logs; initializeSchedules
\* swallows the error, a request handler answers 500.
OnThrow(m) ==
  IF m.f.op = "init"
  THEN [Booted(m) EXCEPT !.ev = Ev(m.s, "bootFailed")]
  ELSE Respond(m, "500")

\* ------------------------------------------------------- frames: the steps
Frames == {BootSlot} \cup Slots

\* Whether the step that ends updateAutoBlogConfig calls setInterval.
Arms(f) == f.pc = "update" /\ InStart(f)

\* configRef.get() of getAutoBlogConfig or configRef.set(defaultConfig) rejects.
ConfigReadFails(s) ==
  /\ req[s].pc \in {"get", "set"}
  /\ Commit(s, OnThrow(Machine(s)))
  /\ UNCHANGED <<db, issued>>

\* configSnap.exists: return configSnap.data()
ConfigReadExists(s) ==
  /\ req[s].pc = "get"
  /\ db.exists
  /\ Commit(s, AfterConfig(Machine(s), db))
  /\ UNCHANGED <<db, issued>>

\* !configSnap.exists: build defaultConfig, await configRef.set(defaultConfig)
ConfigReadAbsent(s) ==
  /\ req[s].pc = "get"
  /\ ~db.exists
  /\ LET ts == TimestampNow(now)
     IN Commit(s, [Machine(s) EXCEPT !.f.pc = "set", !.f.ts = ts, !.t = ts])
  /\ UNCHANGED <<db, issued>>

\* A read that returns the default without creating the document.
ConfigDefaultUnsaved(s) ==
  /\ req[s].pc = "set"
  /\ Commit(s, AfterConfig(Machine(s), defaultConfig(req[s].ts)))
  /\ UNCHANGED <<db, issued>>

\* configRef.set(defaultConfig) lands: the document is replaced by the default.
ConfigSetDefault(s) ==
  /\ req[s].pc = "set"
  /\ db' = defaultConfig(req[s].ts)
  /\ Commit(s, AfterConfig(Machine(s), defaultConfig(req[s].ts)))
  /\ UNCHANGED issued

\* createAutoBlogPost() throws.
CreateFails(s) ==
  /\ req[s].pc = "create"
  /\ Commit(s, OnThrow(Machine(s)))
  /\ UNCHANGED <<db, issued>>

\* createAutoBlogPost() returns the new blog id.
CreateOk(s) ==
  /\ req[s].pc = "create"
  /\ Commit(s, AfterCreate(Machine(s)))
  /\ UNCHANGED <<db, issued>>

\* configRef.update(updates) rejects; it always does when the document is absent.
UpdateFails(s) ==
  /\ req[s].pc = "update"
  /\ Commit(s, OnThrow(Machine(s)))
  /\ UNCHANGED <<db, issued>>

\* configRef.update(updates) lands and the configRef.get() that follows it
\* returns: updateAutoBlogConfig returns the updated config.
UpdateOk(s) ==
  /\ req[s].pc = "update"
  /\ db.exists
  /\ Arms(req[s]) => Len(timers) < MaxTimers
  /\ db' = ApplyUpdate(db, UpdatesOf(req[s]))
  /\ Commit(s, AfterUpdate(Machine(s)))
  /\ UNCHANGED issued

\* configRef.update(updates) lands and the configRef.get() that follows it
\* rejects: the write is kept and updateAutoBlogConfig throws.
UpdateOkReadFails(s) ==
  /\ req[s].pc = "update"
  /\ db.exists
  /\ db' = ApplyUpdate(db, UpdatesOf(req[s]))
  /\ Commit(s, OnThrow(Machine(s)))
  /\ UNCHANGED issued

\* ------------------------------------------------------------ the requests
News(v) == [NoBody EXCEPT !.hasNews = TRUE, !.news = v]
Auto(v) == [NoBody EXCEPT !.hasAuto = TRUE, !.auto = v]
Hours(b, h) == [b EXCEPT !.hasHours = TRUE, !.hours = h]

\* The request bodies tried: each flag alone, the interval alone (positive,
\* zero, negative) and with the enable.
ConfigBodies ==
  {News(TRUE), News(FALSE), Auto(TRUE), Auto(FALSE),
   Hours(NoBody, 2), Hours(NoBody, 0), Hours(Auto(TRUE), 2), Hours(Auto(TRUE), -1)}

\* A body whose absent fields hold their canonical value.
Canonical(b) ==
  /\ b.hasNews \/ ~b.news
  /\ b.hasAuto \/ ~b.auto
  /\ b.hasHours \/ b.hours = 0
  /\ b.hasLastNews \/ b.lastNews = NullTs

\* The lowest free slot takes the next request.
Free(s) ==
  /\ issued < MaxRequests
  /\ req[s] = Idle
  /\ \A r \in Slots : r < s => req[r] # Idle

\* POST /api/config
PostConfig(s) ==
  /\ Free(s)
  /\ \E b \in ConfigBodies :
       /\ Canonical(b)
       /\ Commit(s, EnterNews([Machine(s) EXCEPT !.f = NewFrame("config", "", b)]))
  /\ issued' = issued + 1
  /\ UNCHANGED db

\* GET /api/config
GetConfig(s) ==
  /\ Free(s)
  /\ Commit(s, AwaitConfig([Machine(s) EXCEPT !.f = NewFrame("getcfg", "", NoBody)], ""))
  /\ issued' = issued + 1
  /\ UNCHANGED db

\* req.body.postType || 'regular'; "other" stands for any other string.
PostTypes == {"news", "regular", "other"}

\* POST /api/create-post: 401 on a wrong secret, 400 on an unknown postType,
\* else the config is read first.
CreatePost(s) ==
  /\ Free(s)
  /\ \E authorized \in BOOLEAN, postType \in PostTypes :
       LET m == [Machine(s) EXCEPT !.f = NewFrame("create", postType, NoBody)]
       IN Commit(s, IF ~authorized THEN Respond(m, "401")
                    ELSE IF postType = "other" THEN Respond(m, "400")
                    ELSE AwaitConfig(m, ""))
  /\ issued' = issued + 1
  /\ UNCHANGED db

LastNews(t) == [NoBody EXCEPT !.hasLastNews = TRUE, !.lastNews = t]

\* The data.updates objects tried with the updateConfig action.
WebhookBodies ==
  {NoBody, News(TRUE), Auto(FALSE), Hours(NoBody, 2), Hours(NoBody, 0),
   LastNews(NullTs)}

Actions ==
  {"getConfig", "updateConfig", "createPost", "createNewsPost",
   "createRegularPost", "other"}

\* switch (action)
Dispatch(m) ==
  CASE m.f.arg = "getConfig" -> AwaitConfig(m, "")
    [] m.f.arg = "updateConfig" -> AwaitUpdate(m)
    [] m.f.arg = "createPost" -> AwaitCreate(m)
    [] m.f.arg \in {"createNewsPost", "createRegularPost"} -> AwaitConfig(m, "")
    [] OTHER -> Respond(m, "400")

\* POST /api/webhook
Webhook(s) ==
  /\ Free(s)
  /\ \E authorized \in BOOLEAN, action \in Actions, b \in WebhookBodies :
       /\ action # "updateConfig" => b = NoBody
       /\ LET m == [Machine(s) EXCEPT !.f = NewFrame("webhook", action, b)]
          IN Commit(s, IF ~authorized THEN Respond(m, "401") ELSE Dispatch(m))
  /\ issued' = issued + 1
  /\ UNCHANGED db

\* ------------------------------------------------ the interval callbacks
\* The callback returns.
TickEnds(tm, i) == [tm EXCEPT ![i].pc = "idle", ![i].ts = NullTs]

\* A catch block that gives the schedule up: it clears the timer that failed.
TickCatchDisarms(tm, i) == [TickEnds(tm, i) EXCEPT ![i].armed = FALSE]

\* catch (error) { console.error("Error in ... post interval:", error) }
TickCatch(tm, i) == TickEnds(tm, i)

Handle(kind) == IF kind = "news" THEN newsInterval ELSE regularInterval

\* The timer facility invokes the callback of an armed timer.
TimerFires(i) ==
  /\ timers[i].armed
  /\ timers[i].pc = "idle"
  /\ Cardinality({j \in DOMAIN timers : timers[j].pc # "idle"}) < MaxTicking
  /\ timers' = [timers EXCEPT ![i].pc = "get"]
  /\ UNCHANGED <<db, now, newsInterval, regularInterval, req, issued>>
  /\ ev' = NoEv

\* if (!config.<flag>) { clearInterval(<handle>); <handle> = null; return }
\* else await createAutoBlogPost()
TickDecide(i, cfg) ==
  LET kind == timers[i].kind
  IN IF ~Enabled(kind, cfg)
     THEN /\ timers' = TickEnds(clearInterval(timers, Handle(kind)), i)
          /\ newsInterval' = IF kind = "news" THEN NoTimer ELSE newsInterval
          /\ regularInterval' = IF kind = "regular" THEN NoTimer ELSE regularInterval
          /\ ev' = Ev(i, "disabled")
     ELSE /\ timers' = [timers EXCEPT ![i].pc = "create"]
          /\ UNCHANGED <<newsInterval, regularInterval>>
          /\ ev' = NoEv

TickReadFails(i) ==
  /\ timers[i].pc \in {"get", "set"}
  /\ timers' = TickCatch(timers, i)
  /\ UNCHANGED <<db, now, newsInterval, regularInterval, req, issued>>
  /\ ev' = Ev(i, "error")

TickReadExists(i) ==
  /\ timers[i].pc = "get"
  /\ db.exists
  /\ TickDecide(i, db)
  /\ UNCHANGED <<db, now, req, issued>>

\* The default branch of the callback's getAutoBlogConfig.  A timer is armed
\* after a write to the document has landed and nothing deletes the document,
\* so no callback finds it absent.
TickReadAbsent(i) ==
  /\ timers[i].pc = "get"
  /\ ~db.exists
  /\ now' = TimestampNow(now)
  /\ timers' = [timers EXCEPT ![i].pc = "set", ![i].ts = now']
  /\ UNCHANGED <<db, newsInterval, regularInterval, req, issued>>
  /\ ev' = NoEv

TickSetDefault(i) ==
  /\ timers[i].pc = "set"
  /\ db' = defaultConfig(timers[i].ts)
  /\ TickDecide(i, defaultConfig(timers[i].ts))
  /\ UNCHANGED <<now, req, issued>>

TickCreateFails(i) ==
  /\ timers[i].pc = "create"
  /\ timers' = TickCatch(timers, i)
  /\ UNCHANGED <<db, now, newsInterval, regularInterval, req, issued>>
  /\ ev' = Ev(i, "error")

TickCreateOk(i) ==
  /\ timers[i].pc = "create"
  /\ now' = TimestampNow(now)
  /\ timers' = [timers EXCEPT ![i].pc = "update", ![i].ts = now']
  /\ UNCHANGED <<db, newsInterval, regularInterval, req, issued>>
  /\ ev' = NoEv

TickUpdateFails(i) ==
  /\ timers[i].pc = "update"
  /\ timers' = TickCatch(timers, i)
  /\ UNCHANGED <<db, now, newsInterval, regularInterval, req, issued>>
  /\ ev' = Ev(i, "error")

\* A callback that arms its timer again when its write has landed.
TickUpdateRearms(i) ==
  /\ timers[i].pc = "update"
  /\ db.exists
  /\ db' = ApplyUpdate(db, StampUpdate(timers[i].kind, timers[i].ts))
  /\ timers' = [TickEnds(timers, i) EXCEPT ![i].armed = TRUE]
  /\ UNCHANGED <<now, newsInterval, regularInterval, req, issued>>
  /\ ev' = NoEv

\* The write lands; the configRef.get() that follows returns or rejects, and
\* the callback ends either way.
TickUpdateOk(i) ==
  /\ timers[i].pc = "update"
  /\ db.exists
  /\ db' = ApplyUpdate(db, StampUpdate(timers[i].kind, timers[i].ts))
  /\ timers' = TickEnds(timers, i)
  /\ UNCHANGED <<now, newsInterval, regularInterval, req, issued>>
  /\ ev' = NoEv

\* ------------------------------------------------------- the specification
\* The config document a start of the process may find.
InitDocs ==
  {AbsentDoc}
  \cup {[defaultConfig(NullTs) EXCEPT !.newsUpdatesEnabled = n,
                                      !.autoScheduleEnabled = a] :
          n \in BOOLEAN, a \in BOOLEAN}

Init ==
  /\ db \in InitDocs
  /\ now = 0
  /\ newsInterval = NoTimer
  /\ regularInterval = NoTimer
  /\ timers = <<>>
  /\ req = [s \in Frames |->
              IF s = BootSlot THEN AwaitConfig([f |-> NewFrame("init", "", NoBody)], "read").f
              ELSE Idle]
  /\ issued = 0
  /\ ev = NoEv

Next ==
  \/ \E s \in Slots :
       \/ PostConfig(s)
       \/ GetConfig(s)
       \/ CreatePost(s)
       \/ Webhook(s)
  \/ \E s \in Frames :
       \/ ConfigReadFails(s)
       \/ ConfigReadExists(s)
       \/ ConfigReadAbsent(s)
       \/ ConfigSetDefault(s)
       \/ CreateFails(s)
       \/ CreateOk(s)
       \/ UpdateFails(s)
       \/ UpdateOk(s)
       \/ UpdateOkReadFails(s)
  \/ \E i \in DOMAIN timers :
       \/ TimerFires(i)
       \/ TickReadFails(i)
       \/ TickReadExists(i)
       \/ TickReadAbsent(i)
       \/ TickSetDefault(i)
       \/ TickCreateFails(i)
       \/ TickCreateOk(i)
       \/ TickUpdateFails(i)
       \/ TickUpdateOk(i)

Spec == Init /\ [][Next]_vars

\* ================================================================ the claims
Kinds == {"news", "regular"}

\* No request handler, initializeSchedules or interval callback is in flight.
Settled ==
  /\ \A s \in Frames : req[s].pc = "idle"
  /\ \A i \in DOMAIN timers : timers[i].pc = "idle"

HandleNext(kind) == IF kind = "news" THEN newsInterval' ELSE regularInterval'

LastRun(d, kind) == IF kind = "news" THEN d.lastNewsPost ELSE d.lastRegularPost

\* C1. At most one armed timer per kind: once every start and stop has
\* settled, each kind has at most one armed timer, and an armed timer is the
\* one its handle (newsInterval / regularInterval) refers to.
C1_AtMostOneTimerPerKind ==
  Settled =>
    \A kind \in Kinds :
      /\ Cardinality(Armed(kind)) <= 1
      /\ \A i \in Armed(kind) : Handle(kind) = i

\* The immediate runs of startNewsSchedule that requests have in flight.
NewsStartsInFlight ==
  {s \in Slots : req[s].op = "config" /\ req[s].sec = "news" /\ req[s].pc = "create"}

\* C2. Idempotent start: POST /api/config {newsUpdatesEnabled:true} twice never
\* gives two armed news timers, nor two immediate production runs of
\* startNewsSchedule in flight at the same time.
C2_StartNewsTwice ==
  /\ Cardinality(Armed("news")) <= 1
  /\ Cardinality(NewsStartsInFlight) <= 1

\* C3. Self-stopping on disable: when a tick's config re-read returns the
\* kind's flag as false, the timer that fired is disarmed (so it never fires
\* again), the handle of the kind is cleared, no production run is started and
\* lastRunAt is not written.
C3_SelfStopOnDisable ==
  [][\A i \in DOMAIN timers :
       ev' = Ev(i, "disabled") =>
         /\ ~timers'[i].armed
         /\ timers'[i].pc = "idle"
         /\ HandleNext(timers[i].kind) = NoTimer
         /\ db'.lastNewsPost = db.lastNewsPost
         /\ db'.lastRegularPost = db.lastRegularPost]_vars

\* C4. A production failure in the immediate run of start(kind) does not
\* prevent arming: the step at which createAutoBlogPost fails inside
\* startNewsSchedule / startRegularSchedule ends with a new timer of the kind
\* armed and in the handle, and with lastRunAt unchanged.
C4_StartArmsAfterFailedRun ==
  [][\A s \in Frames :
       (InStart(req[s]) /\ CreateFails(s)) =>
         /\ Len(timers') = Len(timers) + 1
         /\ timers'[Len(timers')].armed
         /\ timers'[Len(timers')].kind = KindOf(req[s])
         /\ HandleNext(KindOf(req[s])) = Len(timers')
         /\ LastRun(db', KindOf(req[s])) = LastRun(db, KindOf(req[s]))]_vars

\* The first production run of a schedule start, or its timestamp write, fails.
FirstRunFails(s) == CreateFails(s) \/ UpdateFails(s) \/ UpdateOkReadFails(s)

\* C5. Schedule activation never fails outwardly: a POST /api/config whose
\* schedule start fails in its first production run or timestamp write is not
\* answered with 500.
C5_EnableNeverAnswers500 ==
  [][\A s \in Slots :
       (req[s].op = "config" /\ InStart(req[s]) /\ FirstRunFails(s)) =>
         ev' # Ev(s, "500")]_vars

\* The handles and the armed timers are as before the step.
SameTimers ==
  /\ newsInterval' = newsInterval
  /\ regularInterval' = regularInterval
  /\ \A j \in DOMAIN timers : timers'[j].armed = timers[j].armed

\* The step is one of the callback of timer i.
TickStep(i) == timers[i].pc # "idle" /\ timers'[i].pc # timers[i].pc

Disables(b, kind) ==
  IF kind = "news" THEN b.hasNews /\ ~b.news ELSE b.hasAuto /\ ~b.auto

\* C7. A POST /api/config that disables a kind, accepted while nothing else
\* is in flight, cancels every armed timer of that kind as it is accepted (so
\* no tick of the kind fires until a later start), and when it completes the
\* persisted flag of the kind is false.
C7_DisableCancelsTimer ==
  [][\A s \in Slots : \A kind \in Kinds :
       /\ (/\ req[s] = Idle
           /\ req'[s].op = "config"
           /\ Disables(req'[s].b, kind)
           /\ \A r \in Frames \ {s} : req[r].pc = "idle") =>
            Armed(kind)' = {}
       /\ (/\ req[s].op = "config"
           /\ Disables(req[s].b, kind)
           /\ ev' = Ev(s, "200")) =>
            ~Enabled(kind, db')]_vars

\* The frame is writing the timestamp of a production run of the kind.
StampWriter(f, kind) ==
  /\ f.pc = "update"
  /\ ~(f.op = "config" /\ f.sec = "save")
  /\ ~(f.op = "webhook" /\ f.arg = "updateConfig")
  /\ KindOf(f) = kind

\* C8. lastNewsPost and lastRegularPost never decrease, and a step changes
\* one only by the timestamp write that follows a successful production run of
\* that kind.
C8_LastRunMonotone ==
  [][\A kind \in Kinds :
       /\ LastRun(db', kind) >= LastRun(db, kind)
       /\ LastRun(db', kind) # LastRun(db, kind) =>
            \/ \E s \in Frames : StampWriter(req[s], kind) /\ req'[s] # req[s]
            \/ \E i \in DOMAIN timers :
                 timers[i].kind = kind /\ timers[i].pc = "update" /\ TickStep(i)]_vars

\* C9. The regular interval is positive at all times: the persisted
\* scheduleIntervalHours is > 0 and no regular timer is armed with a zero or
\* negative interval.
C9_IntervalPositive ==
  /\ db.exists => db.scheduleIntervalHours > 0
  /\ \A i \in DOMAIN timers : timers[i].kind = "regular" => timers[i].ms > 0

\* C10. When initializeSchedules returns, start has been called for the kinds
\* the config it read has enabled and for no other: it does not end inside the
\* news start while the regular schedule is enabled, it ends after a regular
\* start only if the regular schedule is enabled, and inside a news start only
\* if the news schedule is.
C10_InitStartsEnabledKinds ==
  [][(req[BootSlot].op = "init" /\ req'[BootSlot].op = "booted") =>
       LET f == req[BootSlot]
       IN /\ f.b.auto => f.sec = "auto"
          /\ f.sec = "auto" => f.b.auto
          /\ f.sec = "news" => f.b.news]_vars

\* The request changes the interval and its handler took the enabled branch:
\* the body carries a positive scheduleIntervalHours and the handler called
\* startRegularSchedule with it (autoScheduleEnabled true in the body, or in the
\* config the handler read).
ReconfiguresInterval(f) ==
  /\ f.op = "config"
  /\ f.b.hasHours
  /\ f.b.hours > 0
  /\ f.h = f.b.hours

\* C11. Reconfiguring the interval while the regular schedule is enabled is
\* stop(regular) followed by start(regular, newInterval): when the handler's
\* restart has armed its timer (all that is left of the request is to persist
\* the fields), that timer is the only regular timer armed, the handle refers
\* to it, and it runs at the new interval.
C11_ReconfigureRestarts ==
  [][\A s \in Slots :
       (ReconfiguresInterval(req[s]) /\ req[s].sec = "intv" /\ UpdateOk(s)) =>
         /\ regularInterval' = Len(timers')
         /\ Armed("regular")' = {regularInterval'}
         /\ timers'[regularInterval'].ms = req[s].b.hours * HourMs]_vars

\* C12. A webhook updateConfig leaves the timers and the persisted config as
\* POST /api/config with the same fields does: when it is answered 200, an
\* enabled news flag has a news timer behind the handle, a disabled regular flag
\* has left no regular timer in the handle, a scheduleIntervalHours that is not
\* positive has not been persisted, and a positive one with the regular schedule
\* enabled has the handle's timer running at that interval.
C12_WebhookAsConfig ==
  [][\A s \in Slots :
       (req[s].op = "webhook" /\ req[s].arg = "updateConfig" /\ ev' = Ev(s, "200")) =>
         LET b == req[s].b
         IN /\ (b.hasNews /\ b.news) =>
                 /\ newsInterval' # NoTimer
                 /\ timers'[newsInterval'].armed
            /\ (b.hasAuto /\ ~b.auto) => regularInterval' = NoTimer
            /\ (b.hasHours /\ b.hours <= 0) =>
                 db'.scheduleIntervalHours = db.scheduleIntervalHours
            /\ (b.hasHours /\ b.hours > 0 /\ db'.autoScheduleEnabled) =>
                 /\ regularInterval' # NoTimer
                 /\ timers'[regularInterval'].ms = b.hours * HourMs]_vars

\* The body of a POST /api/config carries a scheduleIntervalHours that is not a
\* positive number.
BadInterval(f) == f.op = "config" /\ f.b.hasHours /\ f.b.hours <= 0

\* C13. A malformed request is answered 400 and changes no core state: a
\* request answered as it is accepted is answered 401 or 400, every 400 leaves
\* the timers, the handles and the persisted config as they were, and a POST
\* /api/config whose scheduleIntervalHours is not positive arms and disarms
\* nothing, writes nothing and ends with 400.
C13_Malformed400 ==
  [][\A s \in Slots :
       /\ (Free(s) /\ req'[s] = Idle /\ issued' = issued + 1) =>
            ev' \in {Ev(s, "401"), Ev(s, "400")}
       /\ ev' = Ev(s, "400") =>
            /\ db' = db
            /\ timers' = timers
            /\ newsInterval' = newsInterval
            /\ regularInterval' = regularInterval
       /\ (BadInterval(req[s]) \/ BadInterval(req'[s])) =>
            /\ db' = db
            /\ \A r \in Slots : req'[r].pc # "create"
            /\ SameTimers
            /\ Len(timers') = Len(timers)
            /\ req'[s] = Idle => ev' = Ev(s, "400")]_vars

\* C14. POST /api/create-post for a kind whose flag is false in the config its
\* handler reads answers 400, performs no production run and writes no
\* timestamp: the step at which the read returns ends the request with the
\* 400, and no lastRunAt is set by it.
C14_CreateDisabled400 ==
  [][\A s \in Slots :
       (/\ req[s].op = "create"
        /\ ConfigReadExists(s) \/ ConfigSetDefault(s)
        /\ ~Enabled(KindOf(req[s]), db')) =>
         /\ ev' = Ev(s, "400 disabled")
         /\ req'[s] = Idle
         /\ req[s].pc = "get" => db' = db
         /\ \A kind \in Kinds : LastRun(db', kind) \in {LastRun(db, kind), NullTs}]_vars

\* A create-post request has just been answered 400 for a disabled kind, and
\* the persisted config has a kind disabled.
C14_Witness ==
  \E s \in Slots :
    /\ ev = Ev(s, "400 disabled")
    /\ req[s] = Idle
    /\ db.exists
    /\ \E kind \in Kinds : ~Enabled(kind, db)

\* The default record, as the claim spells it, created at time t.
C15_Default(t) ==
  [exists |-> TRUE, newsUpdatesEnabled |-> FALSE, autoScheduleEnabled |-> FALSE,
   scheduleIntervalHours |-> 24, lastNewsPost |-> NullTs,
   lastRegularPost |-> NullTs, updatedAt |-> t]

\* C15. When the config record is absent, a config read persists the default
\* record before it returns, and its caller goes on with exactly that record:
\* the read that finds no record writes nothing and stays suspended in the
\* set, and the step at which the set lands leaves the default record as the
\* document and resumes the caller with it.  When a record exists the read
\* returns it to the caller and writes nothing.
C15_DefaultMaterialized ==
  [][\A s \in Frames :
       /\ ConfigReadAbsent(s) => (db' = db /\ req'[s].pc = "set")
       /\ ConfigSetDefault(s) =>
            /\ db' = C15_Default(req[s].ts)
            /\ req'[s] = AfterConfig(Machine(s), C15_Default(req[s].ts)).f
       /\ ConfigReadExists(s) =>
            /\ db' = db
            /\ req'[s] = AfterConfig(Machine(s), db).f]_vars

\* initializeSchedules found no record: its read has created the default one,
\* and it has returned without starting a schedule.
C15_Witness ==
  /\ ev = Ev(BootSlot, "booted")
  /\ issued = 0
  /\ timers = <<>>
  /\ now # NullTs
  /\ db = C15_Default(now)

\* A POST /api/config whose body is {autoScheduleEnabled: true} and no more.
EnablesRegularOnly(f) == f.op = "config" /\ f.b = Auto(TRUE)

\* C16. POST /api/config {autoScheduleEnabled:true} with no interval in the
\* request and none set in the persisted config (the record is absent, or its
\* scheduleIntervalHours is unset or still the default) starts the regular
\* schedule at a 24-hour cadence with exactly one immediate production run:
\* the config read calls startRegularSchedule(24); when the run's timestamp
\* write lands lastRegularPost is non-null, a 24-hour timer is armed behind
\* the handle and the handler goes on to the save without another run; the
\* save persists autoScheduleEnabled true, keeps lastRegularPost and answers
\* 200.
C16_EnableRegularDefault ==
  [][\A s \in Slots :
       EnablesRegularOnly(req[s]) =>
         /\ (/\ req[s].sec = "auto"
             /\ ConfigReadExists(s) \/ ConfigSetDefault(s)
             /\ db'.scheduleIntervalHours \in {0, DefaultHours}) =>
              /\ req'[s].pc = "create"
              /\ req'[s].h = 24
              /\ Len(timers') = Len(timers)
         /\ (req[s].sec = "auto" /\ req[s].h = 24 /\ UpdateOk(s)) =>
              /\ db'.lastRegularPost = req[s].ts
              /\ db'.lastRegularPost # NullTs
              /\ Len(timers') = Len(timers) + 1
              /\ regularInterval' = Len(timers')
              /\ timers'[regularInterval'] = Timer("regular", 24 * HourMs)
              /\ req'[s].sec = "save"
              /\ req'[s].pc = "update"
         /\ (req[s].sec = "save" /\ UpdateOk(s)) =>
              /\ ev' = Ev(s, "200")
              /\ db'.autoScheduleEnabled
              /\ db'.lastRegularPost = db.lastRegularPost
              /\ SameTimers]_vars

\* The request has found no interval persisted, has made its one production
\* run and armed the 24-hour timer, and is about to persist the flag.
C16_Witness ==
  \E s \in Slots :
    /\ EnablesRegularOnly(req[s])
    /\ req[s].sec = "save"
    /\ req[s].h = DefaultHours
    /\ db.scheduleIntervalHours = 0
    /\ db.lastRegularPost # NullTs
    /\ regularInterval # NoTimer
    /\ timers[regularInterval] = Timer("regular", DefaultHours * HourMs)
    /\ Armed("regular") = {regularInterval}

\* C17. Runtime/persisted correspondence: in every quiescent state (no
\* request handler, start or interval callback in flight), a kind whose
\* persisted flag is true has a timer armed.
C17_FlagImpliesTimer ==
  Settled =>
    \A kind \in Kinds : (db.exists /\ Enabled(kind, db)) => Armed(kind) # {}

\* The callback of timer i is in its production run or in the timestamp write
\* that follows it.
InRun(i) == timers[i].pc \in {"create", "update"}

\* C18. Cancellation with a run in flight: a tick whose production run is in
\* flight, its timer cancelled or not, runs to its end, and all it may still
\* change is lastRunAt of its kind (with updatedAt): its steps arm no timer,
\* leave every timer as armed or disarmed as it was, leave both handles, and
\* leave the persisted flags, the interval and the other kind's lastRunAt.
C18_LateWriteOnly ==
  [][\A i \in DOMAIN timers :
       (InRun(i) /\ TickStep(i)) =>
         /\ Len(timers') = Len(timers)
         /\ SameTimers
         /\ timers'[i].pc \in {"update", "idle"}
         /\ timers[i].pc = "create" => db' = db
         /\ db'.exists = db.exists
         /\ db'.newsUpdatesEnabled = db.newsUpdatesEnabled
         /\ db'.autoScheduleEnabled = db.autoScheduleEnabled
         /\ db'.scheduleIntervalHours = db.scheduleIntervalHours
         /\ \A kind \in Kinds \ {timers[i].kind} :
              LastRun(db', kind) = LastRun(db, kind)]_vars

\* The only timer there is was cancelled by a disable while its callback was
\* in flight, the disable has been persisted, and the step just taken is the
\* callback's late timestamp write: the timer is still disarmed and the handle
\* still empty.
C18_Witness ==
  /\ Settled
  /\ ev = NoEv
  /\ Len(timers) = 1
  /\ ~timers[1].armed
  /\ Handle(timers[1].kind) = NoTimer
  /\ db.exists
  /\ ~Enabled(timers[1].kind, db)
  /\ LastRun(db, timers[1].kind) = db.updatedAt

\* The handler of a POST /api/config has a schedule start behind it: it has
\* made a production run, written lastRunAt and armed a timer.
HasStarted(f) ==
  /\ f.op = "config"
  /\ \/ f.b.hasNews /\ f.b.news /\ f.sec # "news"
     \/ f.b.hasAuto /\ f.b.auto /\ f.sec \in {"intv", "save"}
     \/ f.sec = "save" /\ ReconfiguresInterval(f)

\* C19. A POST /api/config that is answered 500 leaves the schedule state as
\* it was before the request: the handler has not started a schedule (a
\* production run, a lastRunAt write, a timer armed) before the step that
\* answers 500, and that step arms or disarms nothing.
C19_ErrorLeavesState ==
  [][\A s \in Slots :
       (req[s].op = "config" /\ ev' = Ev(s, "500")) =>
         /\ ~HasStarted(req[s])
         /\ SameTimers]_vars

\* The fields an update writes are the same in both records.
SameFields(d, e) ==
  /\ d.newsUpdatesEnabled = e.newsUpdatesEnabled
  /\ d.autoScheduleEnabled = e.autoScheduleEnabled
  /\ d.scheduleIntervalHours = e.scheduleIntervalHours
  /\ d.lastNewsPost = e.lastNewsPost
  /\ d.lastRegularPost = e.lastRegularPost

\* C20. Default materialization never overwrites an existing record: when the
\* configRef.set of a read's default lands on a record that exists, the flags,
\* the interval and the lastRunAt timestamps of the record stay as they were.
C20_DefaultNeverOverwrites ==
  [][/\ \A s \in Frames :
          (ConfigSetDefault(s) /\ db.exists) => SameFields(db, db')
     /\ \A i \in DOMAIN timers :
          (TickSetDefault(i) /\ db.exists) => SameFields(db, db')]_vars

\* What belongs to one kind is the same after the step as before it: its
\* handle, its armed timers, its persisted flag and lastRunAt, and for the
\* regular kind the persisted interval.
KindUntouched(kind) ==
  /\ HandleNext(kind) = Handle(kind)
  /\ Armed(kind)' = Armed(kind)
  /\ Enabled(kind, db') = Enabled(kind, db)
  /\ LastRun(db', kind) = LastRun(db, kind)
  /\ kind = "regular" => db'.scheduleIntervalHours = db.scheduleIntervalHours

\* The kind a POST /api/config body is about, when it is about one only.
OnlyKind(b) ==
  IF b.hasNews /\ ~b.hasAuto /\ ~b.hasHours THEN "news"
  ELSE IF ~b.hasNews /\ (b.hasAuto \/ b.hasHours) THEN "regular"
  ELSE ""

\* The frame that takes the step in slot s, if it is a POST /api/config.
ConfigStep(s) ==
  /\ req'[s] # req[s]
  /\ req[s].op = "config" \/ (req[s] = Idle /\ req'[s].op = "config")

\* C21. The two schedule kinds are independent: every step of a POST
\* /api/config whose body has only newsUpdatesEnabled leaves the regular
\* handle, the armed regular timers, autoScheduleEnabled, scheduleIntervalHours
\* and lastRegularPost as they were, every step of one whose body has only
\* autoScheduleEnabled and/or scheduleIntervalHours leaves newsInterval, the
\* armed news timers, newsUpdatesEnabled and lastNewsPost as they were, and a
\* step of a tick of one kind leaves the handle and the armed timers of the
\* other kind as they were.
C21_KindsIndependent ==
  [][/\ \A s \in Slots :
          ConfigStep(s) =>
            LET b == IF req[s].op = "config" THEN req[s].b ELSE req'[s].b
            IN \A kind \in Kinds \ {OnlyKind(b)} :
                 OnlyKind(b) # "" => KindUntouched(kind)
     /\ \A i \in DOMAIN timers :
          timers'[i].pc # timers[i].pc =>
            \A kind \in Kinds \ {timers[i].kind} :
              /\ HandleNext(kind) = Handle(kind)
              /\ Armed(kind)' = Armed(kind)]_vars
====
